---- MODULE Spec2Model ----
(***************************************************************************)
(* pacsize.py: report the installed size of pacman packages.               *)
(*                                                                         *)
(* Python integers are unbounded and TLC's are 32 bits wide, so a byte     *)
(* count is a little-endian sequence of base-1024 limbs without a leading  *)
(* (highest) zero limb; <<>> is 0.  A Python float that arises in          *)
(* bytes_humanize is always an integer mantissa of at most 53 significant  *)
(* bits divided by a power of 1024, written [m |-> mantissa, e |-> exp].   *)
(***************************************************************************)
EXTENDS Integers, Sequences, FiniteSets, Bags, TLC

Base == 1024
MantBits == 53

(* ---------------------------- Python int ------------------------------- *)

Limb(n, i) == IF i >= 1 /\ i <= Len(n) THEN n[i] ELSE 0

RECURSIVE Norm(_)
Norm(s) ==
  IF s = <<>> THEN s
  ELSE IF s[Len(s)] = 0 THEN Norm(SubSeq(s, 1, Len(s) - 1)) ELSE s

RECURSIVE AddC(_, _, _)
AddC(a, b, c) ==
  IF a = <<>> /\ b = <<>> THEN (IF c = 0 THEN <<>> ELSE <<c>>)
  ELSE LET t == Limb(a, 1) + Limb(b, 1) + c
           ra == IF a = <<>> THEN a ELSE Tail(a)
           rb == IF b = <<>> THEN b ELSE Tail(b)
       IN <<t % Base>> \o AddC(ra, rb, t \div Base)

NumAdd(a, b) == Norm(AddC(a, b, 0))

RECURSIVE MulC(_, _, _)
MulC(a, k, c) ==
  IF a = <<>> THEN (IF c = 0 THEN <<>> ELSE <<c>>)
  ELSE LET t == Head(a) * k + c
       IN <<t % Base>> \o MulC(Tail(a), k, t \div Base)

NumMulSmall(a, k) == Norm(MulC(a, k, 0))

RECURSIVE LessFrom(_, _, _)
LessFrom(a, b, i) ==
  IF i = 0 THEN FALSE
  ELSE IF a[i] # b[i] THEN a[i] < b[i] ELSE LessFrom(a, b, i - 1)

NumLess(a, b) ==
  IF Len(a) # Len(b) THEN Len(a) < Len(b) ELSE LessFrom(a, b, Len(a))

NumLeq(a, b) == ~NumLess(b, a)

(* str(int): decimal digits by repeated division by ten *)
RECURSIVE DivTen(_, _, _)
DivTen(n, i, r) ==
  IF i = 0 THEN [q |-> <<>>, r |-> r]
  ELSE LET cur == r * Base + n[i]
           rest == DivTen(n, i - 1, cur % 10)
       IN [q |-> rest.q \o <<cur \div 10>>, r |-> rest.r]

RECURSIVE DecDigits(_)
DecDigits(n) ==
  IF n = <<>> THEN <<>>
  ELSE LET d == DivTen(n, Len(n), 0)
       IN DecDigits(Norm(d.q)) \o <<d.r>>

RECURSIVE Join(_)
Join(ds) == IF ds = <<>> THEN "" ELSE ToString(Head(ds)) \o Join(Tail(ds))

str(n) == IF n = <<>> THEN "0" ELSE Join(DecDigits(n))

(* --------------------------- Python float ------------------------------ *)

BitLen(d) == CHOOSE b \in 0..10 : d < 2^b /\ (b = 0 \/ d >= 2^(b - 1))

NumBits(m) == IF m = <<>> THEN 0 ELSE 10 * (Len(m) - 1) + BitLen(m[Len(m)])

(* round m to a multiple of 2^s, ties to even (s >= 1, s < NumBits(m)) *)
RoundBits(m, s) ==
  LET q == s \div 10
      r == s % 10
      lowzero(j) == \A i \in 1..j : m[i] = 0
      t == IF r > 0 THEN m[q + 1] % 2^r ELSE m[q]
      half == IF r > 0 THEN 2^(r - 1) ELSE Base \div 2
      sticky == IF r > 0 THEN ~lowzero(q) ELSE ~lowzero(q - 1)
      odd == (m[q + 1] \div 2^r) % 2 = 1
      up == \/ t > half
            \/ t = half /\ (sticky \/ odd)
      trunc == [i \in 1..Len(m) |->
                  IF i <= q THEN 0
                  ELSE IF i = q + 1 THEN m[i] - (m[i] % 2^r) ELSE m[i]]
      unit == [i \in 1..(q + 1) |-> IF i = q + 1 THEN 2^r ELSE 0]
  IN IF up THEN NumAdd(trunc, unit) ELSE Norm(trunc)

IntToFloat(n) ==
  [m |-> IF NumBits(n) <= MantBits THEN n ELSE RoundBits(n, NumBits(n) - MantBits),
   e |-> 0]

FDiv1024(f) == [m |-> f.m, e |-> f.e + 1]

\* variant: the final "size *= 1024" left out
FMulNone(f) == f

FMul1024(f) == [m |-> f.m, e |-> f.e - 1]

\* variant: "size <= 1" in place of "size < 1"
FLessOrEqualOne(f) ==
  \/ Len(f.m) <= f.e
  \/ f.m = [i \in 1..(f.e + 1) |-> IF i = f.e + 1 THEN 1 ELSE 0]

FLessOne(f) == Len(f.m) <= f.e

(* f"{size:.02f}": the exact binary value rounded to hundredths, ties to even *)
Format02f(f) ==
  LET p == NumMulSmall(f.m, 100)
      k == f.e
      Q == Norm(SubSeq(p, k + 1, Len(p)))
      lowzero(j) == \A i \in 1..j : Limb(p, i) = 0
      top == Limb(p, k)
      up == /\ k > 0
            /\ \/ top > Base \div 2
               \/ top = Base \div 2 /\ (~lowzero(k - 1) \/ Limb(Q, 1) % 2 = 1)
      H == IF up THEN NumAdd(Q, <<1>>) ELSE Q
      ds == DecDigits(H)
      pad == IF Len(ds) >= 3 THEN ds
             ELSE [i \in 1..3 |-> IF i <= 3 - Len(ds) THEN 0 ELSE ds[i - (3 - Len(ds))]]
  IN Join(SubSeq(pad, 1, Len(pad) - 2)) \o "." \o Join(SubSeq(pad, Len(pad) - 1, Len(pad)))

Prefixes == <<"B", "KiB", "MiB", "GiB", "TiB">>

RECURSIVE HumanizeLoop(_, _)
HumanizeLoop(size, i) ==
  LET s1 == FDiv1024(size)
  IN IF FLessOne(s1) \/ i = Len(Prefixes)
     THEN [size |-> s1, prefix |-> Prefixes[i]]
     ELSE HumanizeLoop(s1, i + 1)

bytes_humanize(n) ==
  LET r == HumanizeLoop(IntToFloat(n), 1)
  IN Format02f(FMul1024(r.size)) \o r.prefix

(* ------------------------- program and library state ------------------- *)

VARIABLES
  pc,              \* position of the run
  human_readable,  \* -h
  show_total,      \* -s
  conffile,        \* /etc/pacman.conf as found on disk
  config,          \* the [options] section held by the ConfigParser
  root_dir,
  db_path,
  ret_handle,      \* value returned by alpm_initialize, not yet stored
  self_handle,     \* ALPM.handle
  local_db,        \* ALPM.local_db
  alpm,            \* the library's handle: "none", "open" or "released"
  queried,         \* the list alpm_db_search returned
  res,             \* search_db: the list nodes not yet visited
  packages,        \* search_db's res_array, then main's packages
  idx,             \* main: position of the per-package loop
  out,             \* lines written to standard output
  calls,           \* library calls made so far, in order
  exc,             \* the exception that ended the run, or "none"
  exit_status,     \* -1 while running
  h_in,            \* bytes_humanize called on its own: argument
  h_out            \* bytes_humanize called on its own: result

vars == <<pc, human_readable, show_total, conffile, config, root_dir, db_path,
          ret_handle, self_handle, local_db, alpm, queried, res, packages,
          idx, out, calls, exc, exit_status, h_in, h_out>>

MaxPkgs == 2
HMaxLen == 6

None == "<None>"
Unset == "<unset>"

Names == {"a", "b", "c"}

\* 0, 1536, 1048575, 2^64 - 1
Sizes == {<<>>, <<512, 1>>, <<1023, 1023>>,
          <<1023, 1023, 1023, 1023, 1023, 1023, 15>>}

Package == [name : Names, size : Sizes]

\* what the local database can hold: package names are unique in it
DBs == {s \in UNION {[1..n -> Package] : n \in 0..MaxPkgs} :
          \A i, j \in 1..Len(s) : i # j => s[i].name # s[j].name}

HDigits == {0, 1, 128, 384, 512, 1023}

HInputs == {s \in UNION {[1..n -> HDigits] : n \in 0..HMaxLen} : Norm(s) = s}

(* ------------------------------ configuration -------------------------- *)

FileKeys == {"RootDir", "DBPath"}
FileVals == {"/mnt", None}

optionxform(k) ==
  CASE k = "RootDir" -> "rootdir"
    [] k = "DBPath" -> "dbpath"
    [] k = "CacheDir" -> "cachedir"
    [] OTHER -> k

ConfFiles ==
  [kind : {"missing", "unreadable", "malformed"}, options : {<<>>}]
  \cup [kind : {"ok"},
        options : UNION {[S -> FileVals] : S \in SUBSET FileKeys}]

read_dict ==
  LET d == [k \in {"RootDir", "DBPath", "CacheDir"} |->
              CASE k = "RootDir" -> "/"
                [] k = "DBPath" -> "/var/lib/pacman"
                [] OTHER -> "/var/cache/pacman/pkg"]
  IN [x \in {optionxform(k) : k \in DOMAIN d} |->
        d[CHOOSE k \in DOMAIN d : optionxform(k) = x]]

\* variant: the file is never read
read_nothing(cur, file) == cur

\* ConfigParser.read: a file that cannot be opened is skipped
read(cur, file) ==
  IF file.kind \in {"missing", "unreadable"} THEN cur
  ELSE [x \in DOMAIN cur \cup {optionxform(k) : k \in DOMAIN file.options} |->
          IF \E k \in DOMAIN file.options : optionxform(k) = x
          THEN file.options[CHOOSE k \in DOMAIN file.options : optionxform(k) = x]
          ELSE cur[x]]

get(cfg, option) == cfg[optionxform(option)]

(* ------------------------------ main's helpers ------------------------- *)

\* variant: the sort key compared the other way round
RECURSIVE InsertDescending(_, _)
InsertDescending(s, p) ==
  IF s = <<>> THEN <<p>>
  ELSE IF NumLess(Head(s).size, p.size) THEN <<p>> \o s
       ELSE <<Head(s)>> \o InsertDescending(Tail(s), p)

RECURSIVE Insert(_, _)
Insert(s, p) ==
  IF s = <<>> THEN <<p>>
  ELSE IF NumLess(p.size, Head(s).size) THEN <<p>> \o s
       ELSE <<Head(s)>> \o Insert(Tail(s), p)

RECURSIVE sort(_)
sort(s) ==
  IF s = <<>> THEN s
  ELSE Insert(sort(SubSeq(s, 1, Len(s) - 1)), s[Len(s)])

\* variant: the total kept in 64 bits
RECURSIVE sum_uint64(_)
sum_uint64(s) ==
  IF s = <<>> THEN <<>>
  ELSE LET t == NumAdd(sum_uint64(Tail(s)), Head(s).size)
       IN Norm([i \in 1..(IF Len(t) < 7 THEN Len(t) ELSE 7) |->
                  IF i = 7 THEN t[i] % 16 ELSE t[i]])

RECURSIVE sum(_)
sum(s) == IF s = <<>> THEN <<>> ELSE NumAdd(sum(Tail(s)), Head(s).size)

\* variant: the flag read the wrong way round
display_inverted(n, human) == IF human THEN str(n) ELSE bytes_humanize(n)

display(n, human) == IF human THEN bytes_humanize(n) ELSE str(n)

line(p, human) == p.name \o " " \o display(p.size, human)

Releases == Cardinality({i \in 1..Len(calls) : calls[i] = "alpm_release"})

(* --------------------------------- actions ----------------------------- *)

Init ==
  /\ pc = "start"
  /\ human_readable \in BOOLEAN
  /\ show_total \in BOOLEAN
  /\ conffile \in ConfFiles
  /\ config = <<>>
  /\ root_dir = Unset
  /\ db_path = Unset
  /\ ret_handle = Unset
  /\ self_handle = Unset
  /\ local_db = Unset
  /\ alpm = "none"
  /\ queried = <<>>
  /\ res = <<>>
  /\ packages = <<>>
  /\ idx = 1
  /\ out = <<>>
  /\ calls = <<>>
  /\ exc = "none"
  /\ exit_status = -1
  /\ h_in = <<>>
  /\ h_out = ""

Raise(e) ==
  /\ exc' = e
  /\ pc' = "raised"

\* read_pacman_config
ReadConfig ==
  /\ pc = "start"
  /\ IF conffile.kind = "malformed"
     THEN /\ Raise("ParsingError")
          /\ UNCHANGED config
     ELSE /\ config' = read(read_dict, conffile)
          /\ pc' = "get_paths"
          /\ UNCHANGED exc
  /\ UNCHANGED <<human_readable, show_total, conffile, root_dir, db_path,
                 ret_handle, self_handle, local_db, alpm, queried, res,
                 packages, idx, out, calls, exit_status, h_in, h_out>>

\* main: root_dir, db_path = config.get(...), config.get(...)
GetPaths ==
  /\ pc = "get_paths"
  /\ root_dir' = get(config, "RootDir")
  /\ db_path' = get(config, "DBPath")
  /\ pc' = "initialize"
  /\ UNCHANGED <<human_readable, show_total, conffile, config, ret_handle,
                 self_handle, local_db, alpm, queried, res, packages, idx,
                 out, calls, exc, exit_status, h_in, h_out>>

\* ALPM.__init__: the arguments are encoded, then alpm_initialize is called;
\* the library answers with a handle or with NULL
AlpmInitialize ==
  /\ pc = "initialize"
  /\ IF root_dir = None \/ db_path = None
     THEN /\ Raise("AttributeError")
          /\ UNCHANGED <<ret_handle, alpm, calls>>
     ELSE /\ \E h \in {"NULL", "H"} :
               /\ ret_handle' = h
               /\ alpm' = IF h = "H" THEN "open" ELSE alpm
          /\ calls' = Append(calls, "alpm_initialize")
          /\ pc' = "store_handle"
          /\ UNCHANGED exc
  /\ UNCHANGED <<human_readable, show_total, conffile, config, root_dir,
                 db_path, self_handle, local_db, queried, res, packages, idx,
                 out, exit_status, h_in, h_out>>

\* ALPM.__init__: self.handle = <the returned value>
StoreHandle ==
  /\ pc = "store_handle"
  /\ self_handle' = ret_handle
  /\ pc' = "get_localdb"
  /\ UNCHANGED <<human_readable, show_total, conffile, config, root_dir,
                 db_path, ret_handle, local_db, alpm, queried, res, packages,
                 idx, out, calls, exc, exit_status, h_in, h_out>>

\* ALPM.__init__: self.local_db = alpm_get_localdb(self.handle)
GetLocalDb ==
  /\ pc = "get_localdb"
  /\ calls' = Append(calls, "alpm_get_localdb")
  /\ local_db' = IF self_handle = "H" THEN "DB" ELSE "NULL"
  /\ pc' = "search"
  /\ UNCHANGED <<human_readable, show_total, conffile, config, root_dir,
                 db_path, ret_handle, self_handle, alpm, queried, res,
                 packages, idx, out, exc, exit_status, h_in, h_out>>

\* search_db up to the call of alpm_db_search
SearchDb ==
  /\ pc = "search"
  /\ calls' = Append(calls, "alpm_db_search")
  /\ \E d \in (IF local_db = "DB" THEN DBs ELSE {<<>>}) :
       /\ queried' = d
       /\ res' = d
  /\ packages' = <<>>
  /\ pc' = "walk"
  /\ UNCHANGED <<human_readable, show_total, conffile, config, root_dir,
                 db_path, ret_handle, self_handle, local_db, alpm, idx, out,
                 exc, exit_status, h_in, h_out>>

\* search_db: one turn of the while loop
Walk ==
  /\ pc = "walk"
  /\ res # <<>>
  /\ calls' = calls \o <<"alpm_pkg_get_name", "alpm_pkg_get_isize">>
  /\ packages' = Append(packages, Head(res))
  /\ res' = Tail(res)
  /\ UNCHANGED <<pc, human_readable, show_total, conffile, config, root_dir,
                 db_path, ret_handle, self_handle, local_db, alpm, queried,
                 idx, out, exc, exit_status, h_in, h_out>>

\* variant: search_db releases the handle before it returns
SortReleased ==
  /\ pc = "walk"
  /\ res = <<>>
  /\ packages' = sort(packages)
  /\ idx' = 1
  /\ pc' = "print"
  /\ calls' = Append(calls, "alpm_release")
  /\ alpm' = IF self_handle = "H" THEN "released" ELSE alpm
  /\ UNCHANGED <<human_readable, show_total, conffile, config, root_dir,
                 db_path, ret_handle, self_handle, local_db, queried,
                 res, out, exc, exit_status, h_in, h_out>>

\* search_db returns; main sorts the list
Sort ==
  /\ pc = "walk"
  /\ res = <<>>
  /\ packages' = sort(packages)
  /\ idx' = 1
  /\ pc' = "print"
  /\ UNCHANGED <<human_readable, show_total, conffile, config, root_dir,
                 db_path, ret_handle, self_handle, local_db, alpm, queried,
                 res, out, calls, exc, exit_status, h_in, h_out>>

\* main, show_total
PrintTotal ==
  /\ pc = "print"
  /\ show_total
  /\ out' = Append(out, display(sum(packages), human_readable))
  /\ pc' = "return"
  /\ UNCHANGED <<human_readable, show_total, conffile, config, root_dir,
                 db_path, ret_handle, self_handle, local_db, alpm, queried,
                 res, packages, idx, calls, exc, exit_status, h_in, h_out>>

\* main, one turn of the per-package loop
PrintPackage ==
  /\ pc = "print"
  /\ ~show_total
  /\ idx <= Len(packages)
  /\ out' = Append(out, line(packages[idx], human_readable))
  /\ idx' = idx + 1
  /\ UNCHANGED <<pc, human_readable, show_total, conffile, config, root_dir,
                 db_path, ret_handle, self_handle, local_db, alpm, queried,
                 res, packages, calls, exc, exit_status, h_in, h_out>>

\* ALPM.__del__
Del ==
  /\ calls' = Append(calls, "alpm_release")
  /\ alpm' = IF self_handle = "H" THEN "released" ELSE alpm

\* main returns: its local alpm loses its last reference and is finalized
MainReturn ==
  /\ \/ pc = "return"
     \/ pc = "print" /\ ~show_total /\ idx > Len(packages)
  /\ Del
  /\ exit_status' = 0
  /\ pc' = "done"
  /\ UNCHANGED <<human_readable, show_total, conffile, config, root_dir,
                 db_path, ret_handle, self_handle, local_db, queried, res,
                 packages, idx, out, exc, h_in, h_out>>

\* a signal handler raises KeyboardInterrupt between two steps of the run
Interrupt ==
  /\ pc \notin {"start", "raised", "done", "humanize", "humanized"}
  /\ Raise("KeyboardInterrupt")
  /\ UNCHANGED <<human_readable, show_total, conffile, config, root_dir,
                 db_path, ret_handle, self_handle, local_db, alpm, queried,
                 res, packages, idx, out, calls, exit_status, h_in, h_out>>

\* the uncaught exception ends the interpreter.  The traceback keeps the ALPM
\* object alive until shutdown, where its finalizer may or may not be run;
\* without a handle attribute the finalizer fails before it calls the library
Exit ==
  /\ pc = "raised"
  /\ \E finalized \in (IF self_handle # Unset THEN BOOLEAN ELSE {FALSE}) :
       IF finalized THEN Del ELSE UNCHANGED <<calls, alpm>>
  /\ exit_status' = 1
  /\ pc' = "done"
  /\ UNCHANGED <<human_readable, show_total, conffile, config, root_dir,
                 db_path, ret_handle, self_handle, local_db, queried, res,
                 packages, idx, out, exc, h_in, h_out>>

Next ==
  \/ ReadConfig
  \/ GetPaths
  \/ AlpmInitialize
  \/ StoreHandle
  \/ GetLocalDb
  \/ SearchDb
  \/ Walk
  \/ Sort
  \/ PrintTotal
  \/ PrintPackage
  \/ MainReturn
  \/ Interrupt
  \/ Exit

Spec == Init /\ [][Next]_vars

(* ----------------------- bytes_humanize on its own --------------------- *)

HInit ==
  /\ pc = "humanize"
  /\ h_in \in HInputs
  /\ h_out = ""
  /\ human_readable = TRUE
  /\ show_total = FALSE
  /\ conffile = [kind |-> "missing", options |-> <<>>]
  /\ config = <<>>
  /\ root_dir = Unset
  /\ db_path = Unset
  /\ ret_handle = Unset
  /\ self_handle = Unset
  /\ local_db = Unset
  /\ alpm = "none"
  /\ queried = <<>>
  /\ res = <<>>
  /\ packages = <<>>
  /\ idx = 1
  /\ out = <<>>
  /\ calls = <<>>
  /\ exc = "none"
  /\ exit_status = -1

Humanize ==
  /\ pc = "humanize"
  /\ h_out' = bytes_humanize(h_in)
  /\ pc' = "humanized"
  /\ UNCHANGED <<human_readable, show_total, conffile, config, root_dir,
                 db_path, ret_handle, self_handle, local_db, alpm, queried,
                 res, packages, idx, out, calls, exc, exit_status, h_in>>

HNext == Humanize

HSpec == HInit /\ [][HNext]_vars

(* ------------------------------ properties ----------------------------- *)

Pow1024(k) == [i \in 1..(k + 1) |-> IF i = k + 1 THEN 1 ELSE 0]

TimesPow1024(H, k) == Norm([i \in 1..k |-> 0] \o H)

\* H hundredths is a nearest hundredth of v / 1024^k:
\* 200 v <= (2H + 1) 1024^k  and  2H 1024^k <= 200 v + 1024^k
Nearest(v, k, H) ==
  /\ NumLeq(NumMulSmall(v, 200),
            NumAdd(TimesPow1024(NumMulSmall(H, 2), k), Pow1024(k)))
  /\ NumLeq(TimesPow1024(NumMulSmall(H, 2), k),
            NumAdd(NumMulSmall(v, 200), Pow1024(k)))

Floor100(v, k) ==
  LET p == NumMulSmall(v, 100) IN Norm(SubSeq(p, k + 1, Len(p)))

Hundredths(v, k) ==
  {H \in {Floor100(v, k), NumAdd(Floor100(v, k), <<1>>)} : Nearest(v, k, H)}

TwoPlaces(H) ==
  LET ds == DecDigits(H)
      z == CASE Len(ds) = 0 -> <<0, 0, 0>>
             [] Len(ds) = 1 -> <<0, 0>> \o ds
             [] Len(ds) = 2 -> <<0>> \o ds
             [] OTHER -> ds
  IN Join(SubSeq(z, 1, Len(z) - 2)) \o "." \o Join(SubSeq(z, Len(z) - 1, Len(z)))

\* the texts "v / 1024^k to two decimal places, then the k-th unit"
Rendering(v, k) == {TwoPlaces(H) \o Prefixes[k + 1] : H \in Hundredths(v, k)}

\* the unit k with n / 1024^(k+1) < 1 <= n / 1024^k (k = 0 when n = 0)
UnitOf(n) == IF Len(n) <= 1 THEN 0 ELSE Len(n) - 1

Examples ==
  /\ h_in = <<>> => h_out = "0.00B"
  /\ h_in = <<1023>> => h_out = "1023.00B"
  /\ h_in = <<0, 1>> => h_out = "1.00KiB"
  /\ h_in = <<512, 1>> => h_out = "1.50KiB"
  /\ h_in = <<0, 0, 1>> => h_out = "1.00MiB"

\* C1 as stated: for every n >= 0, bytes_humanize(n) is n/1024^k to two
\* decimal places followed by the k-th of the five units, where k is the unit
\* for which one more division by 1024 gives a value below 1; with the five
\* examples of the specification.
C1_Original ==
  pc = "humanized" =>
    /\ \E k \in 0..(Len(Prefixes) - 1) :
         /\ Len(h_in) <= k + 1
         /\ k = 0 \/ Len(h_in) > k
         /\ h_out \in Rendering(h_in, k)
    /\ Examples

\* C1 amended: for every n with 0 <= n < 1024^5, bytes_humanize(n) is
\* n/1024^k to two decimal places followed by the k-th of the five units,
\* where k is the unit for which one more division by 1024 gives a value
\* below 1; with the five examples of the specification.
C1_Humanize ==
  (pc = "humanized" /\ Len(h_in) <= Len(Prefixes)) =>
    /\ h_out \in Rendering(h_in, UnitOf(h_in))
    /\ Examples

C1_Witness == pc = "humanized" /\ h_in = <<512, 1>> /\ h_out = "1.50KiB"

InRange(H, lo, hi) == NumLeq(lo, H) /\ NumLeq(H, hi)

\* the printed text is some number of hundredths between lo and hi in one of
\* the five units
PrintedWithin(lo, hi) ==
  \E k \in 0..(Len(Prefixes) - 1) :
    \E H \in {Floor100(h_in, k), NumAdd(Floor100(h_in, k), <<1>>)} :
      /\ h_out = TwoPlaces(H) \o Prefixes[k + 1]
      /\ InRange(H, lo, hi)

\* C9 as stated: for 1 <= n < 1024^5 the printed number is at least 1.00 and
\* strictly below 1024.00; for n >= 1024^5 the text is n/1024^4 in TiB.
C9_Original ==
  pc = "humanized" =>
    /\ Len(h_in) \in 1..Len(Prefixes) =>
         PrintedWithin(<<100>>, <<1023, 99>>)
    /\ Len(h_in) > Len(Prefixes) => h_out \in Rendering(h_in, 4)

\* C9 amended: for 1 <= n < 1024^5 the value n/1024^k that is printed lies in
\* [1, 1024) before rounding and the printed number is at least 1.00 and at
\* most 1024.00 (1048575 prints as "1024.00KiB"); for n >= 1024^5 the unit is
\* TiB and the number is the double nearest n, divided by 1024^4, to two
\* decimal places.
C9_Range ==
  pc = "humanized" =>
    /\ Len(h_in) \in 1..Len(Prefixes) =>
         /\ h_out \in Rendering(h_in, Len(h_in) - 1)
         /\ PrintedWithin(<<100>>, <<0, 100>>)
    /\ Len(h_in) > Len(Prefixes) =>
         h_out \in Rendering(IntToFloat(h_in).m, 4)

C9_Witness ==
  pc = "humanized" /\ h_in = <<1023, 1023>> /\ h_out = "1024.00KiB"

Finished == pc = "done" /\ exc = "none"

Perms(n) == {f \in [1..n -> 1..n] : \A i, j \in 1..n : i # j => f[i] # f[j]}

\* C2: in per-package mode the printed lines are "name size" for a
\* permutation of the query result, in non-decreasing order of size.
C2_PerPackage ==
  (Finished /\ ~show_total) =>
    /\ Len(out) = Len(queried)
    /\ \E f \in Perms(Len(queried)) :
         /\ \A i \in 1..Len(out) :
              out[i] = queried[f[i]].name \o " "
                         \o display(queried[f[i]].size, human_readable)
         /\ \A i, j \in 1..Len(out) :
              i < j => NumLeq(queried[f[i]].size, queried[f[j]].size)

C2_Witness ==
  /\ Finished
  /\ ~show_total
  /\ ~human_readable
  /\ Len(queried) = 2
  /\ NumLess(queried[2].size, queried[1].size)
  /\ out = <<queried[2].name \o " 1536", queried[1].name \o " 1048575">>

\* the arithmetic sum of the sizes, counted size by size
RECURSIVE SumOver(_, _)
SumOver(S, q) ==
  IF S = {} THEN <<>>
  ELSE LET s == CHOOSE x \in S : TRUE
           n == Cardinality({i \in 1..Len(q) : q[i].size = s})
       IN NumAdd(NumMulSmall(s, n), SumOver(S \ {s}, q))

\* C3: in total mode exactly one line is printed, the sum of the sizes of
\* all packages of the query result, as str(sum) without -h and
\* bytes_humanize(sum) with -h, with no package name.
C3_Total ==
  (Finished /\ show_total) =>
    out = <<display(SumOver(Sizes, queried), human_readable)>>

C3_Witness ==
  /\ Finished
  /\ show_total
  /\ ~human_readable
  /\ Len(queried) = 2
  /\ out = <<"36893488147419103230">>

Searched == \E i \in 1..Len(calls) : calls[i] = "alpm_db_search"

\* C4: when the query returns no packages, per-package mode prints nothing,
\* total mode prints the one line "0" (or "0.00B" with -h), nothing in the
\* program raises, and the run ends with status 0 and the handle released.
C4_Empty ==
  (Searched /\ queried = <<>>) =>
    /\ exc \in {"none", "KeyboardInterrupt"}
    /\ Finished =>
         /\ ~show_total => out = <<>>
         /\ (show_total /\ ~human_readable) => out = <<"0">>
         /\ (show_total /\ human_readable) => out = <<"0.00B">>
         /\ exit_status = 0
         /\ Releases = 1
         /\ alpm # "open"

C4_Witness ==
  /\ Finished
  /\ queried = <<>>
  /\ self_handle = "H"
  /\ alpm = "released"
  /\ show_total
  /\ human_readable
  /\ out = <<"0.00B">>

\* C5: in every run in which alpm_initialize returned a handle, alpm_release
\* has been called on it exactly once when the process ends.
C5_ReleasedOnce ==
  (pc = "done" /\ ret_handle = "H") => Releases = 1

\* C6: when alpm_initialize returns NULL no query is made on the null handle
\* and the run does not end with status 0.
C6_InitFailureFatal ==
  ret_handle = "NULL" =>
    /\ \A i \in 1..Len(calls) :
         calls[i] \notin {"alpm_get_localdb", "alpm_db_search"}
    /\ pc = "done" => exit_status # 0

Given(key, default) ==
  IF conffile.kind = "ok" /\ key \in DOMAIN conffile.options
  THEN conffile.options[key]
  ELSE default

Called == \E i \in 1..Len(calls) : calls[i] = "alpm_initialize"

\* C7: the root directory and the database path handed to alpm_initialize
\* are, key by key, the value of the [options] section when the key is there
\* and "/" and "/var/lib/pacman" when the file or the key is missing; a
\* missing file or key raises nothing.
C7_Paths ==
  /\ (Called /\ conffile.kind \in {"missing", "ok"}) =>
       /\ root_dir = Given("RootDir", "/")
       /\ db_path = Given("DBPath", "/var/lib/pacman")
  /\ exc = "ParsingError" => conffile.kind = "malformed"
  /\ exc = "AttributeError" =>
       /\ conffile.kind = "ok"
       /\ \E k \in DOMAIN conffile.options : conffile.options[k] = None

C7_Witness ==
  /\ Called
  /\ conffile.kind = "ok"
  /\ DOMAIN conffile.options = {"RootDir"}
  /\ root_dir = "/mnt"
  /\ db_path = "/var/lib/pacman"

\* C8: when the config file exists but cannot be opened, the run ends with a
\* non-zero status before any handle is opened or anything is printed, and
\* the default paths are not used.
C8_UnreadableFatal ==
  conffile.kind = "unreadable" =>
    /\ root_dir = Unset /\ db_path = Unset
    /\ calls = <<>>
    /\ out = <<>>
    /\ pc = "done" => exit_status # 0

Rank(c) ==
  CASE c = "alpm_initialize" -> 1
    [] c = "alpm_get_localdb" -> 2
    [] c = "alpm_db_search" -> 3
    [] c \in {"alpm_pkg_get_name", "alpm_pkg_get_isize"} -> 4
    [] c = "alpm_release" -> 5

CallsInOrder ==
  /\ calls # <<>> => calls[1] = "alpm_initialize"
  /\ \A i, j \in 1..Len(calls) :
       i < j => /\ Rank(calls[i]) <= Rank(calls[j])
                /\ Rank(calls[i]) # 4 => Rank(calls[i]) < Rank(calls[j])
  /\ \A j \in 1..Len(calls) :
       Rank(calls[j]) \in 2..4 =>
         \E i \in 1..(j - 1) : Rank(calls[i]) = Rank(calls[j]) - 1
  /\ alpm = "released" => calls[Len(calls)] = "alpm_release"

PrintsCopiedData ==
  out' # out =>
    /\ \A i \in 1..Len(calls') : calls'[i] # "alpm_release"
    /\ res = <<>>
    /\ Cardinality({i \in 1..Len(calls) : Rank(calls[i]) = 4}) = 2 * Len(queried)
    /\ Len(packages) = Len(queried)

\* C10: the library calls of a run are, in this order, alpm_initialize,
\* alpm_get_localdb, alpm_db_search, the name and size accessors,
\* alpm_release; and every line is printed after the whole result was copied
\* and before the release.
C10_CallOrder == [](CallsInOrder) /\ [][PrintsCopiedData]_vars

C10_Witness ==
  /\ Finished
  /\ Len(out) = 2
  /\ Len(calls) = 8
  /\ calls[8] = "alpm_release"

====
